---- MODULE Spec2Model ----
(***************************************************************************)
(* Model of src/llm/main.py: the /llm/generate handler, which tries the    *)
(* configured model candidates in order against the upstream chat          *)
(* completion service and maps every attempt's outcome to a result.        *)
(***************************************************************************)
EXTENDS Integers, Sequences, FiniteSets, TLC

(* ------------------------------ bounds --------------------------------- *)

\* Longest configured candidate list explored.
MaxCands == 3

\* Model identifiers that may appear in MODEL_CANDIDATES.
Models == {"m1", "m2"}

\* Values of the MAX_OUTPUT_TOKENS setting and of request.max_tokens explored.
CeilingValues == {2, 600}
RequestedValues == {1, 600, 601}

\* Concurrent invocations of generate.
Requests == {"r1", "r2"}

\* Longest MODEL_CANDIDATES environment value explored, in characters.
MaxEnvLen == 4

\* The characters such a value is made of.
CandChars == {"a", " ", ","}

(* --------------------------- JSON values ------------------------------- *)
\* What response.json() can return: each value carries its Python type.

JNull == [t |-> "null"]
JStr(s) == [t |-> "str", s |-> s]
JNum(n) == [t |-> "num", n |-> n]
JArr(a) == [t |-> "arr", a |-> a]
\* An object is its member list, a sequence of <<key, value>> pairs (keys distinct).
JObj(o) == [t |-> "obj", o |-> o]

\* A response body that is not JSON at all.
RawBody == [t |-> "raw"]

\* A raised Python exception, as the value of the expression that raised it.
Raise(name) == [t |-> "raise", exc |-> name]
IsRaise(v) == v.t = "raise"

\* response.json(): the decoded body, or a decoding error for a non-JSON body.
ResponseJson(body) ==
    IF body.t = "raw" THEN Raise("JSONDecodeError") ELSE body

\* d.get(key, default) on a Python value d: only a dict has .get.
DictGet(d, key, default) ==
    IF d.t # "obj" THEN Raise("AttributeError")
    ELSE IF \E i \in DOMAIN d.o : d.o[i][1] = key
         THEN d.o[CHOOSE i \in DOMAIN d.o : d.o[i][1] = key][2]
         ELSE default

\* x[0] on a Python value x.
Subscript0(x) ==
    CASE x.t = "arr" -> IF Len(x.a) = 0 THEN Raise("IndexError") ELSE x.a[1]
      [] x.t = "str" -> IF x.s = "" THEN Raise("IndexError") ELSE JStr("h")  \* one character
      [] x.t = "obj" -> Raise("KeyError")
      [] OTHER       -> Raise("TypeError")

\* Python truthiness of a decoded JSON value (the test `if text:`).
Truthy(v) ==
    CASE v.t = "null" -> FALSE
      [] v.t = "str"  -> v.s # ""
      [] v.t = "num"  -> v.n # 0
      [] v.t = "arr"  -> Len(v.a) > 0
      [] v.t = "obj"  -> Len(v.o) > 0
      [] OTHER        -> FALSE

\* data.get("choices", [{}])[0].get("message", {}).get("content", "")
\* evaluated left to right; the first exception ends the evaluation.
ExtractText(data) ==
    LET choices == DictGet(data, "choices", JArr(<<JObj(<<>>)>>)) IN
    IF IsRaise(choices) THEN choices ELSE
    LET first == Subscript0(choices) IN
    IF IsRaise(first) THEN first ELSE
    LET message == DictGet(first, "message", JObj(<<>>)) IN
    IF IsRaise(message) THEN message ELSE
    DictGet(message, "content", JStr(""))

(* ------------------------- upstream behaviour --------------------------- *)

\* A well-formed completion body whose message content is c.
WithContent(c) ==
    JObj(<< <<"choices", JArr(<< JObj(<< <<"message", JObj(<< <<"content", c>> >>)>> >>) >>)>> >>)

\* A body whose first choice's "message" member is m.
WithMessage(m) ==
    JObj(<< <<"choices", JArr(<< JObj(<< <<"message", m>> >>) >>)>> >>)

\* A body whose "choices" member is c.
WithChoices(c) == JObj(<< <<"choices", c>> >>)

\* Bodies a 200 response may carry.
Bodies ==
    { WithContent(JStr("hello")), WithContent(JStr("")), WithContent(JNull),
      WithContent(JNum(42)), WithContent(JNum(0)), WithContent(JArr(<<JStr("part")>>)),
      WithMessage(JObj(<<>>)), WithMessage(JNull), WithMessage(JStr("hello")),
      WithChoices(JArr(<<>>)), WithChoices(JArr(<<JObj(<<>>)>>)), WithChoices(JArr(<<JNull>>)),
      WithChoices(JNull), WithChoices(JObj(<<>>)), WithChoices(JStr("hello")),
      JObj(<<>>), JObj(<< <<"error", JStr("overloaded")>> >>),
      JArr(<<>>), JNull, JStr("hello"), RawBody }

\* Statuses the upstream may answer with besides 200 (their bodies are never read).
OtherStatuses == {201, 204, 301, 400, 401, 404, 429, 499, 500, 503, 599}

\* A success status other than 200 that carries a complete completion body.
Created == 201

Timeout == [kind |-> "timeout"]
TransportError == [kind |-> "transport"]
Response(status, body) == [kind |-> "response", status |-> status, body |-> body]

\* Everything one client.post call can end in.
Outcomes ==
    {Timeout, TransportError}
        \cup {Response(200, b) : b \in Bodies}
        \cup {Response(s, JNull) : s \in OtherStatuses}
        \cup {Response(Created, WithContent(JStr("hello")))}

\* The answers a deterministic stub is scripted with: one or two of each way
\* an attempt can go.
StubAnswers ==
    { Timeout, TransportError, Response(429, JNull), Response(503, JNull),
      Response(400, JNull), Response(201, JNull),
      Response(200, WithContent(JStr("hello"))), Response(200, WithContent(JStr(""))),
      Response(200, WithContent(JNum(42))), Response(200, WithChoices(JArr(<<>>))),
      Response(200, RawBody) }

(* ----------------------------- results --------------------------------- *)

NoResult == [kind |-> "none"]
Success(text, model) == [kind |-> "Success", text |-> text, model_used |-> model]
Failure(error) == [kind |-> "Failure", error_type |-> error]
\* An exception that leaves generate instead of a returned value.
Escaped(name) == [kind |-> "Exception", exc |-> name]

(* ------------------------------ state ---------------------------------- *)

\* Text read from the environment is a sequence of characters. The default
\* base address "https://openrouter.ai/api/v1" is kept as one token.
DefaultBaseUrl == <<"https://openrouter.ai/api/v1">>

VARIABLES
    boot,               \* the process: starting, serving or crashed at import
    OPENROUTER_API_KEY, \* the credential (module level, line 38)
    OPENROUTER_BASE_URL,\* the base address (module level, line 39)
    MODEL_CANDIDATES,   \* the configured candidate list (module level, line 40)
    REQUEST_TIMEOUT_SEC,\* the per-attempt timeout (module level, line 41)
    MAX_OUTPUT_TOKENS,  \* the configured ceiling (module level, line 42)
    stub,               \* the upstream: its fixed answer per model, or AnyAnswer
    request,            \* request[r].max_tokens
    pc,                 \* where invocation r is: idle, loop, await, done
    idx,                \* position of the for loop in MODEL_CANDIDATES
    last_error,         \* the local last_error of invocation r
    calls,              \* payloads posted by invocation r, in order
    outcomes,           \* what each of those posts ended in, in order
    result              \* what invocation r returned (or raised)

vars == <<boot, OPENROUTER_API_KEY, OPENROUTER_BASE_URL, MODEL_CANDIDATES,
          REQUEST_TIMEOUT_SEC, MAX_OUTPUT_TOKENS, stub, request, pc, idx,
          last_error, calls, outcomes, result>>

\* The module-level settings, assigned once while the module is imported.
settings == <<OPENROUTER_API_KEY, OPENROUTER_BASE_URL, MODEL_CANDIDATES,
              REQUEST_TIMEOUT_SEC, MAX_OUTPUT_TOKENS>>

config == <<boot, settings, stub, request>>

\* Candidate lists line 40 can build: non-empty identifiers, any order, repeats allowed.
CandidateLists == UNION {[1..n -> Models] : n \in 0..MaxCands}

Min(a, b) == IF a <= b THEN a ELSE b

\* Variant: the requested value is sent as it came, without the ceiling.
EffectiveMaxTokensUnclamped(requested, ceiling) == requested

\* "max_tokens": min(request.max_tokens, MAX_OUTPUT_TOKENS)
EffectiveMaxTokens(requested, ceiling) == Min(requested, ceiling)

\* The payload of one attempt.
Payload(model, req, ceiling) ==
    [model |-> model, max_tokens |-> EffectiveMaxTokens(req.max_tokens, ceiling)]

\* The value last_error starts with.
InitialLastError == "failed"

\* Variant: the empty list is reported with a kind of its own.
EmptyListResultDedicated == Failure("no_candidates")

\* What generate returns when MODEL_CANDIDATES is empty.
EmptyListResult == Failure("failed")

\* The httpx exception classes the exception raised by the post is an instance
\* of: a timeout is a TimeoutException, which is itself a RequestError.
ExceptionClasses(o) ==
    IF o.kind = "timeout" THEN {"TimeoutException", "TransportError", "RequestError"}
    ELSE {"TransportError", "RequestError"}

\* Variant: the two except clauses in the other order.
ClassifyExceptionSwapped(o) ==
    IF "RequestError" \in ExceptionClasses(o)
        THEN [ctl |-> "continue", last_error |-> "upstream_error"]
    ELSE [ctl |-> "continue", last_error |-> "timeout"]

\* except httpx.TimeoutException / except httpx.RequestError: the post raised.
\* The first clause that matches the exception handles it.
ClassifyException(o) ==
    IF "TimeoutException" \in ExceptionClasses(o)
        THEN [ctl |-> "continue", last_error |-> "timeout"]
    ELSE [ctl |-> "continue", last_error |-> "upstream_error"]

\* Variant: a success names the head of the list instead of the candidate tried.
ClassifyTextFirstModel(text, model) ==
    IF Truthy(text) THEN [ctl |-> "return", text |-> text, model |-> MODEL_CANDIDATES[1]]
    ELSE [ctl |-> "break", last_error |-> "failed"]

\* `if text: return {...}`, else last_error = "failed" and break.
ClassifyText(text, model) ==
    IF Truthy(text) THEN [ctl |-> "return", text |-> text, model |-> model]
    ELSE [ctl |-> "break", last_error |-> "failed"]

\* The branch for status 200: decode, extract, test. An exception raised by
\* response.json() or by the extraction is not caught anywhere in generate.
ClassifyOk(body, model) ==
    LET data == ResponseJson(body) IN
    IF IsRaise(data) THEN [ctl |-> "raise", exc |-> data.exc] ELSE
    LET text == ExtractText(data) IN
    IF IsRaise(text) THEN [ctl |-> "raise", exc |-> text.exc]
    ELSE ClassifyText(text, model)

\* Variant: every 4xx is retried on the next candidate like a 5xx.
ClassifyStatusRetry4xx(status) ==
    IF status = 429 THEN [ctl |-> "continue", last_error |-> "rate_limited"]
    ELSE IF 400 <= status /\ status < 600
        THEN [ctl |-> "continue", last_error |-> "upstream_error"]
    ELSE [ctl |-> "break", last_error |-> "failed"]

\* Variant: a 429 is retried but not recorded, so the kind of the candidate
\* before it would stay; with nothing before it, the generic kind.
ClassifyStatusUnrecorded429(status) ==
    IF status = 429 THEN [ctl |-> "continue", last_error |-> "failed"]
    ELSE IF 500 <= status /\ status < 600
        THEN [ctl |-> "continue", last_error |-> "upstream_error"]
    ELSE [ctl |-> "break", last_error |-> "failed"]

\* The branches for every status other than 200.
ClassifyStatus(status) ==
    IF status = 429 THEN [ctl |-> "continue", last_error |-> "rate_limited"]
    ELSE IF 500 <= status /\ status < 600
        THEN [ctl |-> "continue", last_error |-> "upstream_error"]
    ELSE [ctl |-> "break", last_error |-> "failed"]

\* The body of one loop iteration after the post: what the attempt's outcome o
\* makes the loop do for candidate `model`.
Classify(o, model) ==
    IF o.kind \in {"timeout", "transport"} THEN ClassifyException(o)
    ELSE IF o.status = 200 THEN ClassifyOk(o.body, model)
    ELSE ClassifyStatus(o.status)

\* Variant: one iterator over the list is shared by all invocations, so a loop
\* starts where the posts of the others have advanced it.
LoopStartSharedIterator(r) ==
    1 + Cardinality(UNION {{<<q, i>> : i \in DOMAIN calls[q]} : q \in Requests \ {r}})

\* The candidate the for loop of invocation r starts with: the first of the list.
LoopStart(r) == 1

\* Variant: a Continue tries the same candidate again instead of moving on.
NextCandidateRetry(i) == i

\* `continue`: the for loop moves on to the candidate after position i.
NextCandidate(i) == i + 1

\* Variant: the loop's end reports the generic kind, not the recorded one.
LoopEndResultGeneric(error) == Failure("failed")

\* The return after the loop: {"error_type": last_error}.
LoopEndResult(error) == Failure(error)

\* Variant: last_error is one module-level variable, so the loop's end reads
\* what another request in progress has recorded.
RecordedErrorGlobal(r) ==
    LET others == {q \in Requests \ {r} : last_error[q] # "unset"} IN
    IF others = {} THEN last_error[r] ELSE last_error[CHOOSE q \in others : TRUE]

\* The last_error the return after the loop reads: the invocation's own local.
RecordedError(r) == last_error[r]

\* The upstream is not scripted for a model: any outcome may come back.
AnyAnswer == [kind |-> "any"]

\* The upstream is not scripted either, and answers in one of the few ways of
\* FewAnswers: one representative of each way an attempt can go.
FewAnswer == [kind |-> "few"]

FewAnswers ==
    { Timeout, Response(429, JNull), Response(400, JNull),
      Response(200, WithContent(JStr("hello"))), Response(200, WithChoices(JArr(<<>>))) }

\* The upstream may end a post for `model` in outcome o.
Answers(model, o) ==
    CASE stub[model] = AnyAnswer -> TRUE
      [] stub[model] = FewAnswer -> o \in FewAnswers
      [] OTHER                   -> o = stub[model]

(* ------------------------------ actions -------------------------------- *)

\* A request arrives: the empty-list check, then last_error and the loop are set up.
Start(r) ==
    /\ boot.state = "serving"
    /\ pc[r] = "idle"
    /\ IF Len(MODEL_CANDIDATES) = 0
       THEN /\ result' = [result EXCEPT ![r] = EmptyListResult]
            /\ pc' = [pc EXCEPT ![r] = "done"]
            /\ UNCHANGED <<idx, last_error>>
       ELSE /\ last_error' = [last_error EXCEPT ![r] = InitialLastError]
            /\ idx' = [idx EXCEPT ![r] = LoopStart(r)]
            /\ pc' = [pc EXCEPT ![r] = "loop"]
            /\ UNCHANGED result
    /\ UNCHANGED <<config, calls, outcomes>>

\* The loop takes the next candidate, builds the payload and posts it.
Send(r) ==
    /\ pc[r] = "loop"
    /\ idx[r] <= Len(MODEL_CANDIDATES)
    /\ calls' = [calls EXCEPT ![r] =
           Append(@, Payload(MODEL_CANDIDATES[idx[r]], request[r], MAX_OUTPUT_TOKENS))]
    /\ pc' = [pc EXCEPT ![r] = "await"]
    /\ UNCHANGED <<config, idx, last_error, outcomes, result>>

\* The post ends (response, timeout or transport error) and the rest of the
\* iteration runs: continue, break and return, return, or an exception.
Receive(r) ==
    /\ pc[r] = "await"
    /\ \E o \in Outcomes :
        LET model == MODEL_CANDIDATES[idx[r]]
            c == Classify(o, model)
        IN  /\ Answers(model, o)
            /\ outcomes' = [outcomes EXCEPT ![r] = Append(@, o)]
            /\ CASE c.ctl = "continue" ->
                      /\ last_error' = [last_error EXCEPT ![r] = c.last_error]
                      /\ idx' = [idx EXCEPT ![r] = NextCandidate(@)]
                      /\ pc' = [pc EXCEPT ![r] = "loop"]
                      /\ UNCHANGED result
                 [] c.ctl = "break" ->
                      /\ last_error' = [last_error EXCEPT ![r] = c.last_error]
                      /\ result' = [result EXCEPT ![r] = LoopEndResult(c.last_error)]
                      /\ pc' = [pc EXCEPT ![r] = "done"]
                      /\ UNCHANGED idx
                 [] c.ctl = "return" ->
                      /\ result' = [result EXCEPT ![r] = Success(c.text, c.model)]
                      /\ pc' = [pc EXCEPT ![r] = "done"]
                      /\ UNCHANGED <<idx, last_error>>
                 [] c.ctl = "raise" ->
                      /\ result' = [result EXCEPT ![r] = Escaped(c.exc)]
                      /\ pc' = [pc EXCEPT ![r] = "done"]
                      /\ UNCHANGED <<idx, last_error>>
    /\ UNCHANGED <<config, calls>>

\* The loop has run out of candidates: return {"error_type": last_error}.
Exhaust(r) ==
    /\ pc[r] = "loop"
    /\ idx[r] > Len(MODEL_CANDIDATES)
    /\ result' = [result EXCEPT ![r] = LoopEndResult(RecordedError(r))]
    /\ pc' = [pc EXCEPT ![r] = "done"]
    /\ UNCHANGED <<config, idx, last_error, calls, outcomes>>

Next == \E r \in Requests : Start(r) \/ Send(r) \/ Receive(r) \/ Exhaust(r)

(* ------------------------------ startup -------------------------------- *)
\* Lines 31-42 run once, when the module is imported. Text is a sequence of
\* characters; an environment variable is Unset or Set to a text.

Unset == [set |-> FALSE]
Set(v) == [set |-> TRUE, v |-> v]

\* A value an expression evaluated to without raising.
Value(v) == [t |-> "value", v |-> v]

\* str.strip(): leading and trailing whitespace removed.
RECURSIVE LStrip(_)
LStrip(s) == IF s # <<>> /\ Head(s) = " " THEN LStrip(Tail(s)) ELSE s

RECURSIVE RStrip(_)
RStrip(s) ==
    IF s # <<>> /\ s[Len(s)] = " " THEN RStrip(SubSeq(s, 1, Len(s) - 1)) ELSE s

Strip(s) == RStrip(LStrip(s))

\* str.split(","): the pieces between the commas, empty pieces included.
RECURSIVE Split(_)
Split(s) ==
    IF \A i \in DOMAIN s : s[i] # "," THEN <<s>>
    ELSE LET i == CHOOSE j \in DOMAIN s :
                      s[j] = "," /\ \A h \in 1..(j - 1) : s[h] # ","
         IN  <<SubSeq(s, 1, i - 1)>> \o Split(SubSeq(s, i + 1, Len(s)))

\* os.getenv(name, default) in environment e.
GetEnvRaw(e, name, default) == IF e[name].set THEN e[name] ELSE default

\* get_env(name, default)
get_env(e, name, default) ==
    LET value == GetEnvRaw(e, name, default) IN
    IF ~value.set \/ Strip(value.v) = <<>> THEN Raise("RuntimeError")
    ELSE Value(value.v)

\* Variant: the list comprehension without its `if item.strip()` filter.
ParseCandidatesUnfiltered(s) ==
    LET items == Split(s) IN [i \in DOMAIN items |-> Strip(items[i])]

\* [item.strip() for item in value.split(",") if item.strip()]
ParseCandidates(s) ==
    LET items == Split(s)
        kept == SelectSeq(items, LAMBDA item : Strip(item) # <<>>)
    IN  [i \in DOMAIN kept |-> Strip(kept[i])]

Digits == {"0", "1", "2", "3", "4", "5", "6", "7", "8", "9"}

DigitValue(c) ==
    CASE c = "0" -> 0 [] c = "1" -> 1 [] c = "2" -> 2 [] c = "3" -> 3 [] c = "4" -> 4
      [] c = "5" -> 5 [] c = "6" -> 6 [] c = "7" -> 7 [] c = "8" -> 8 [] c = "9" -> 9

RECURSIVE DecimalValue(_)
DecimalValue(s) ==
    IF s = <<>> THEN 0
    ELSE 10 * DecimalValue(SubSeq(s, 1, Len(s) - 1)) + DigitValue(s[Len(s)])

\* int(text) and float(text) on the texts explored here (digits, blanks and
\* letters): surrounding whitespace is ignored, anything but a numeral raises.
ParseNumber(s) ==
    LET body == Strip(s) IN
    IF body # <<>> /\ \A i \in DOMAIN body : body[i] \in Digits
    THEN Value(DecimalValue(body)) ELSE Raise("ValueError")

\* The defaults of lines 39, 41 and 42.
DefaultTimeout == <<"3", "0">>
DefaultMaxTokens == <<"6", "0", "0">>

\* A name that was never assigned because the import stopped before its line.
Unbound == "unbound"

\* Lines 38-42 in environment e, top to bottom; the first exception ends the
\* import and leaves the later names unassigned.
Import(e) ==
    LET none == [state |-> "crashed", error |-> "", key |-> Unbound, url |-> Unbound,
                 candidates |-> Unbound, timeout |-> Unbound, max_tokens |-> Unbound]
        key == get_env(e, "OPENROUTER_API_KEY", Unset)
        url == get_env(e, "OPENROUTER_BASE_URL", Set(DefaultBaseUrl))
        cand == get_env(e, "MODEL_CANDIDATES", Unset)
        tmo == get_env(e, "REQUEST_TIMEOUT_SEC", Set(DefaultTimeout))
        tmoNum == ParseNumber(tmo.v)
        maxt == get_env(e, "MAX_OUTPUT_TOKENS", Set(DefaultMaxTokens))
        maxtNum == ParseNumber(maxt.v)
    IN  IF IsRaise(key) THEN [none EXCEPT !.error = key.exc] ELSE
        LET a == [none EXCEPT !.key = key.v] IN
        IF IsRaise(url) THEN [a EXCEPT !.error = url.exc] ELSE
        LET b == [a EXCEPT !.url = url.v] IN
        IF IsRaise(cand) THEN [b EXCEPT !.error = cand.exc] ELSE
        LET c == [b EXCEPT !.candidates = ParseCandidates(cand.v)] IN
        IF IsRaise(tmo) THEN [c EXCEPT !.error = tmo.exc] ELSE
        IF IsRaise(tmoNum) THEN [c EXCEPT !.error = tmoNum.exc] ELSE
        LET d == [c EXCEPT !.timeout = tmoNum.v] IN
        IF IsRaise(maxt) THEN [d EXCEPT !.error = maxt.exc] ELSE
        IF IsRaise(maxtNum) THEN [d EXCEPT !.error = maxtNum.exc] ELSE
        [d EXCEPT !.max_tokens = maxtNum.v, !.state = "serving"]

\* The module is imported: the settings are read, or the process dies.
Startup ==
    /\ boot.state = "starting"
    /\ LET im == Import(boot.env) IN
        /\ boot' = [state |-> im.state, env |-> boot.env, error |-> im.error]
        /\ OPENROUTER_API_KEY' = im.key
        /\ OPENROUTER_BASE_URL' = im.url
        /\ MODEL_CANDIDATES' = im.candidates
        /\ REQUEST_TIMEOUT_SEC' = im.timeout
        /\ MAX_OUTPUT_TOKENS' = im.max_tokens
    /\ UNCHANGED <<stub, request, pc, idx, last_error, calls, outcomes, result>>

NextStartup == Startup \/ Next

(* ------------------------- specifications ------------------------------ *)

\* The state of the invocations before any of them has started; `arriving`
\* are the requests that will be served, the others never arrive.
InitRequests(arriving) ==
    /\ pc = [r \in Requests |-> IF r \in arriving THEN "idle" ELSE "absent"]
    /\ idx = [r \in Requests |-> 0]
    /\ last_error = [r \in Requests |-> "unset"]
    /\ calls = [r \in Requests |-> <<>>]
    /\ outcomes = [r \in Requests |-> <<>>]
    /\ result = [r \in Requests |-> NoResult]

\* The process after a successful import with the documented defaults for the
\* base address and the timeout; the environment it was read from is not kept.
Serving == [state |-> "serving"]

Started ==
    /\ boot = Serving
    /\ OPENROUTER_API_KEY = <<"k">>
    /\ OPENROUTER_BASE_URL = DefaultBaseUrl
    /\ REQUEST_TIMEOUT_SEC = 30
    /\ MODEL_CANDIDATES \in CandidateLists
    /\ MAX_OUTPUT_TOKENS \in CeilingValues

\* One request against an upstream that may answer anything on every attempt.
Init ==
    /\ Started
    /\ stub = [m \in Models |-> AnyAnswer]
    /\ request \in [Requests -> [max_tokens : RequestedValues]]
    /\ request["r2"] = request["r1"]
    /\ InitRequests({"r1"})

Spec == Init /\ [][Next]_vars

\* Two identical requests, served in any interleaving, against a deterministic
\* upstream stub: the same answer for the same model, every time.
InitStub ==
    /\ Started
    /\ stub \in [Models -> StubAnswers]
    /\ request \in [Requests -> [max_tokens : RequestedValues]]
    /\ request["r2"] = request["r1"]
    /\ InitRequests(Requests)

SpecStub == InitStub /\ [][Next]_vars

\* One request, with the scheduling the runtime gives: the event loop runs
\* every step of the coroutine that is ready (Start, Send, Exhaust), and every
\* post ends, in a response, a transport error or the client's timeout (Receive).
Fairness ==
    \A r \in Requests :
        /\ WF_vars(Start(r))
        /\ WF_vars(Send(r))
        /\ WF_vars(Receive(r))
        /\ WF_vars(Exhaust(r))

SpecLive == Init /\ [][Next]_vars /\ Fairness

\* Texts the MODEL_CANDIDATES variable may hold, and the identifiers they name.
EnvTexts == UNION {[1..n -> CandChars] : n \in 0..MaxEnvLen}

\* Environments the process may be started in.
Environments ==
    [ OPENROUTER_API_KEY  : {Unset, Set(<<"k">>)},
      OPENROUTER_BASE_URL : {Unset, Set(<<" ">>), Set(<<"u">>)},
      MODEL_CANDIDATES    : {Unset} \cup {Set(s) : s \in EnvTexts},
      REQUEST_TIMEOUT_SEC : {Unset, Set(<<"x">>)},
      MAX_OUTPUT_TOKENS   : {Unset, Set(<<" ">>), Set(<<"2">>)} ]

\* The process from its start in some environment, then one request against
\* an upstream answering in any of the ways of FewAnswers.
InitStartup ==
    /\ boot \in {[state |-> "starting", env |-> e] : e \in Environments}
    /\ OPENROUTER_API_KEY = Unbound
    /\ OPENROUTER_BASE_URL = Unbound
    /\ MODEL_CANDIDATES = Unbound
    /\ REQUEST_TIMEOUT_SEC = Unbound
    /\ MAX_OUTPUT_TOKENS = Unbound
    /\ stub = [m \in EnvTexts |-> FewAnswer]
    /\ request = [r \in Requests |-> [max_tokens |-> 601]]
    /\ InitRequests({"r1"})

SpecStartup == InitStartup /\ [][NextStartup]_vars

\* Two different requests served concurrently, in any interleaving of their
\* steps, the upstream answering each post in any of the ways of FewAnswers.
InitConc ==
    /\ Started
    /\ MAX_OUTPUT_TOKENS = 600
    /\ stub = [m \in Models |-> FewAnswer]
    /\ request = [r \in Requests |-> [max_tokens |-> IF r = "r1" THEN 601 ELSE 1]]
    /\ InitRequests(Requests)

SpecConc == InitConc /\ [][Next]_vars

(* ---------------------- vocabulary of the properties -------------------- *)

Done(r) == pc[r] = "done"

\* The attempts invocation r has seen the end of, and the last of them.
Attempts(r) == Len(outcomes[r])
LastOutcome(r) == outcomes[r][Len(outcomes[r])]

\* A transient condition: timeout, transport error, 429 or 5xx.
Transient(o) ==
    \/ o.kind \in {"timeout", "transport"}
    \/ o.kind = "response" /\ (o.status = 429 \/ o.status \in 500..599)

\* The error kind the decision table assigns to a transient condition.
TableKind(o) ==
    CASE o.kind = "timeout"   -> "timeout"
      [] o.kind = "transport" -> "upstream_error"
      [] o.status = 429       -> "rate_limited"
      [] OTHER                -> "upstream_error"

AllTransient(r) == \A i \in DOMAIN outcomes[r] : Transient(outcomes[r][i])
EarlierTransient(r) == \A i \in 1..(Attempts(r) - 1) : Transient(outcomes[r][i])

\* The member `key` of JSON value v; null when v is no object or has no such member.
Member(v, key) ==
    IF v.t = "obj" /\ \E i \in DOMAIN v.o : v.o[i][1] = key
    THEN v.o[CHOOSE i \in DOMAIN v.o : v.o[i][1] = key][2]
    ELSE JNull

\* The message content of a body as the provider documents it:
\* choices[0].message.content, null when a step of the path is missing.
DocumentedContent(body) ==
    LET c == Member(body, "choices")
        first == IF c.t = "arr" /\ Len(c.a) > 0 THEN c.a[1] ELSE JNull
    IN  Member(Member(first, "message"), "content")

NonEmptyText(v) == v.t = "str" /\ v.s # ""

\* A JSON object body in which the path to the content stops at a missing
\* field: no "choices", an empty "choices" list, a first choice without
\* "message" (or a null one), a message without "content" (or null or "").
MissingField(body) ==
    /\ body.t = "obj"
    /\ LET c == Member(body, "choices") IN
        \/ \A i \in DOMAIN body.o : body.o[i][1] # "choices"
        \/ c.t = "arr" /\ Len(c.a) = 0
        \/ /\ c.t = "arr" /\ Len(c.a) > 0 /\ c.a[1].t = "obj"
           /\ LET m == Member(c.a[1], "message") IN
                \/ m.t = "null"
                \/ m.t = "obj" /\ Member(m, "content") \in {JNull, JStr("")}

Ok200(o) == o.kind = "response" /\ o.status = 200

\* A status that is no success status, not 429 and not 5xx.
NonRetryableStatus(o) ==
    /\ o.kind = "response"
    /\ o.status \notin 200..299
    /\ o.status # 429
    /\ o.status \notin 500..599

\* Invariant of the bookkeeping the properties below read positions from: the
\* i-th post of an invocation is for the i-th candidate.
CallsFollowList(r) ==
    \A i \in DOMAIN calls[r] :
        i <= Len(MODEL_CANDIDATES) /\ calls[r][i].model = MODEL_CANDIDATES[i]

(* ------------------------------ properties ------------------------------ *)

\* C1: with a non-empty candidate list, when every attempt of a finished
\* invocation ended in a transient condition, the result is a Failure whose
\* error kind is the table's kind for the last candidate's outcome, and exactly
\* len(candidates) posts were made, one per candidate in order.
C1_AllTransientLastKind ==
    \A r \in Requests :
        (Done(r) /\ Len(MODEL_CANDIDATES) > 0 /\ AllTransient(r)) =>
            /\ Attempts(r) = Len(MODEL_CANDIDATES)
            /\ Len(calls[r]) = Len(MODEL_CANDIDATES)
            /\ CallsFollowList(r)
            /\ result[r] = Failure(TableKind(LastOutcome(r)))

C1_Witness ==
    /\ Done("r1")
    /\ Len(MODEL_CANDIDATES) = 3
    /\ outcomes["r1"] = <<Timeout, TransportError, Response(429, JNull)>>
    /\ result["r1"] = Failure("rate_limited")

\* C2: when candidates 1..k-1 ended in transient conditions and candidate k
\* answered 200 with non-empty text, the result is Success with that text and
\* model_used = candidate k, exactly k posts were made, and the invocation is
\* over, so no candidate after k is called.
C2_FirstSuccessWins ==
    \A r \in Requests :
        LET k == Attempts(r) IN
        (/\ Len(calls[r]) = k /\ k > 0
         /\ pc[r] # "await"
         /\ EarlierTransient(r)
         /\ Ok200(LastOutcome(r))
         /\ LastOutcome(r).body.t = "obj"
         /\ NonEmptyText(DocumentedContent(LastOutcome(r).body))) =>
            /\ Done(r)
            /\ result[r] = Success(DocumentedContent(LastOutcome(r).body), MODEL_CANDIDATES[k])
            /\ CallsFollowList(r)

C2_Witness ==
    /\ Done("r1")
    /\ MODEL_CANDIDATES = <<"m1", "m2", "m1">>
    /\ outcomes["r1"] = <<Response(503, JNull), Response(200, WithContent(JStr("hello")))>>
    /\ Len(calls["r1"]) = 2
    /\ result["r1"] = Success(JStr("hello"), "m2")

C4_EmptyOkStops ==
    \A r \in Requests :
        LET k == Attempts(r) IN
        (/\ Len(calls[r]) = k /\ k > 0
         /\ pc[r] # "await"
         /\ EarlierTransient(r)
         /\ Ok200(LastOutcome(r))
         /\ MissingField(LastOutcome(r).body)) =>
            /\ Done(r)
            /\ result[r] = Failure("failed")
            /\ CallsFollowList(r)

\* C5: when candidate k answers with a status that is no success status, not
\* 429 and not 5xx (earlier candidates having ended in transient conditions),
\* the invocation stops there with Failure(failed), whatever kinds were
\* recorded before, after exactly k posts.
C5_NonRetryableStops ==
    \A r \in Requests :
        LET k == Attempts(r) IN
        (/\ Len(calls[r]) = k /\ k > 0
         /\ pc[r] # "await"
         /\ EarlierTransient(r)
         /\ NonRetryableStatus(LastOutcome(r))) =>
            /\ Done(r)
            /\ result[r] = Failure("failed")
            /\ last_error[r] = "failed"
            /\ CallsFollowList(r)

C5_Witness ==
    /\ Done("r1")
    /\ Len(MODEL_CANDIDATES) = 3
    /\ outcomes["r1"] = <<Response(429, JNull), Response(404, JNull)>>
    /\ Len(calls["r1"]) = 2
    /\ result["r1"] = Failure("failed")

\* The error kinds of the taxonomy.
ErrorKinds == {"failed", "timeout", "upstream_error", "rate_limited", "no_candidates"}

\* C6: every finished invocation has returned a value, Success or a Failure
\* with one of the five kinds; no exception leaves generate.
C6_NoExceptionEscapes ==
    \A r \in Requests :
        Done(r) =>
            \/ result[r].kind = "Success"
            \/ result[r].kind = "Failure" /\ result[r].error_type \in ErrorKinds

\* C7: a 200 whose body lacks a field on the path to the content is classified
\* as empty content: stop, with error kind failed; never a structural error.
C7_MissingFieldIsEmpty ==
    \A r \in Requests : \A i \in DOMAIN outcomes[r] :
        (Ok200(outcomes[r][i]) /\ MissingField(outcomes[r][i].body)) =>
            Classify(outcomes[r][i], calls[r][i].model)
                = [ctl |-> "break", last_error |-> "failed"]

\* C8: a Success carries non-empty text, and its model_used is the candidate
\* of the last post of that invocation.
C8_SuccessHasText ==
    \A r \in Requests :
        result[r].kind = "Success" =>
            /\ NonEmptyText(result[r].text)
            /\ Len(calls[r]) > 0
            /\ result[r].model_used = calls[r][Len(calls[r])].model
            /\ result[r].model_used = MODEL_CANDIDATES[Len(calls[r])]

\* C9: every payload posted, for whichever candidate, carries max_tokens =
\* min(requested, ceiling): one of the two, and above neither.
C9_MaxTokensClamped ==
    \A r \in Requests : \A i \in DOMAIN calls[r] :
        LET sent == calls[r][i].max_tokens IN
        /\ sent \in {request[r].max_tokens, MAX_OUTPUT_TOKENS}
        /\ sent <= request[r].max_tokens
        /\ sent <= MAX_OUTPUT_TOKENS

C9_Witness ==
    /\ request["r1"].max_tokens = 601
    /\ MAX_OUTPUT_TOKENS = 600
    /\ Len(calls["r1"]) = 2
    /\ calls["r1"][1] = [model |-> "m1", max_tokens |-> 600]
    /\ calls["r1"][2] = [model |-> "m2", max_tokens |-> 600]

\* C10: two runs of the same request against a deterministic stub end in the
\* same result after the same posts in the same order, however the two runs
\* are interleaved.
C10_Deterministic ==
    (Done("r1") /\ Done("r2")) =>
        /\ result["r1"] = result["r2"]
        /\ calls["r1"] = calls["r2"]
        /\ outcomes["r1"] = outcomes["r2"]

C10_Witness ==
    /\ Done("r1") /\ Done("r2")
    /\ request["r1"] = request["r2"]
    /\ Len(calls["r1"]) = 2 /\ Len(calls["r2"]) = 2
    /\ result["r1"].kind = "Success"
    /\ result["r2"] = result["r1"]

\* C11: within one request the posts are a prefix of the candidate list in
\* configured order (the i-th post is for the i-th candidate, so no candidate
\* position is posted twice), every post but the last has finished with a
\* Continue condition before the next was made, and at most one post is in
\* flight.
C11_SequentialPrefix ==
    \A r \in Requests :
        /\ CallsFollowList(r)
        /\ Len(calls[r]) - Attempts(r) \in {0, 1}
        /\ (Len(calls[r]) - Attempts(r) = 1) <=> (pc[r] = "await")
        /\ \A i \in 1..(Len(calls[r]) - 1) : Transient(outcomes[r][i])

C11_Witness ==
    /\ pc["r1"] = "await"
    /\ MODEL_CANDIDATES = <<"m2", "m1", "m2">>
    /\ Len(calls["r1"]) = 3
    /\ outcomes["r1"] = <<Timeout, Response(500, JNull)>>

\* C12: a candidate that answers with any success status (2xx, not only 200)
\* and a non-empty extracted message body is a StopSuccess: the result is
\* Success with that text and that candidate as model_used.
C12_AnySuccessStatus ==
    \A r \in Requests :
        LET k == Attempts(r) IN
        (/\ Len(calls[r]) = k /\ k > 0
         /\ LastOutcome(r).kind = "response"
         /\ LastOutcome(r).status \in 200..299
         /\ LastOutcome(r).body.t = "obj"
         /\ NonEmptyText(DocumentedContent(LastOutcome(r).body))) =>
            /\ Done(r)
            /\ result[r] = Success(DocumentedContent(LastOutcome(r).body), MODEL_CANDIDATES[k])

\* C13: an attempt on which the timeout elapses is recorded as timeout, never
\* as upstream_error; any other transport failure is recorded as
\* upstream_error; both are Continue: the loop moves to the next candidate, and
\* the invocation ends only when that was the last one, with the recorded kind.
C13_TimeoutBeforeTransport ==
    \A r \in Requests :
        LET k == Attempts(r) IN
        (/\ Len(calls[r]) = k /\ k > 0
         /\ LastOutcome(r).kind \in {"timeout", "transport"}) =>
            /\ last_error[r] =
                 (IF LastOutcome(r).kind = "timeout" THEN "timeout" ELSE "upstream_error")
            /\ idx[r] = k + 1
            /\ \/ pc[r] = "loop"
               \/ Done(r) /\ k = Len(MODEL_CANDIDATES) /\ result[r] = Failure(last_error[r])

C13_Witness ==
    /\ pc["r1"] = "loop"
    /\ Len(MODEL_CANDIDATES) = 3
    /\ outcomes["r1"] = <<TransportError, Timeout>>
    /\ last_error["r1"] = "timeout"
    /\ idx["r1"] = 3

\* What generate does when it runs alone on candidate list `cands` and its
\* posts end in outs[1], outs[2], ...: from position i on, with `err` recorded.
RECURSIVE RunAloneFrom(_, _, _, _, _, _)
RunAloneFrom(cands, req, ceiling, outs, i, err) ==
    IF i > Len(cands) THEN [calls |-> <<>>, result |-> Failure(err)]
    ELSE IF i > Len(outs) THEN [calls |-> <<>>, result |-> NoResult]
    ELSE
        LET c == Classify(outs[i], cands[i])
            p == Payload(cands[i], req, ceiling)
            rest == RunAloneFrom(cands, req, ceiling, outs, i + 1, c.last_error)
        IN  CASE c.ctl = "continue" -> [calls |-> <<p>> \o rest.calls, result |-> rest.result]
              [] c.ctl = "break"    -> [calls |-> <<p>>, result |-> Failure(c.last_error)]
              [] c.ctl = "return"   -> [calls |-> <<p>>, result |-> Success(c.text, c.model)]
              [] c.ctl = "raise"    -> [calls |-> <<p>>, result |-> Escaped(c.exc)]

RunAlone(cands, req, ceiling, outs) ==
    IF Len(cands) = 0 THEN [calls |-> <<>>, result |-> Failure("failed")]
    ELSE RunAloneFrom(cands, req, ceiling, outs, 1, "failed")

\* Each finished request has the result and the posts it would have had alone,
\* given the answers its own posts got.
AsIfAlone ==
    \A r \in Requests :
        Done(r) =>
            LET alone == RunAlone(MODEL_CANDIDATES, request[r], MAX_OUTPUT_TOKENS, outcomes[r])
            IN  result[r] = alone.result /\ calls[r] = alone.calls

\* C14: requests served concurrently do not interfere: in every interleaving
\* each request ends with the result and the posts it would have had alone,
\* and no step of any request changes the candidate list, the timeout, the
\* ceiling or any other setting.
C14_NoInterference ==
    /\ []AsIfAlone
    /\ [][UNCHANGED settings]_vars

C14_Witness ==
    /\ Done("r1")
    /\ MODEL_CANDIDATES = <<"m1", "m2", "m1">>
    /\ outcomes["r1"] = <<Response(429, JNull), Response(200, WithContent(JStr("hello")))>>
    /\ result["r1"] = Success(JStr("hello"), "m2")
    /\ pc["r2"] = "await"
    /\ outcomes["r2"] = <<Timeout, Timeout>>
    /\ Len(calls["r2"]) = 3
    /\ calls["r2"][3] = [model |-> "m1", max_tokens |-> 1]

\* Every invocation that has arrived ends, by returning or by raising.
EventuallyEnds == \A r \in Requests : (pc[r] = "idle") ~> Done(r)

\* C15: provided every post eventually ends, every invocation eventually
\* returns a result (a Success or a Failure), having made at most
\* len(candidates) posts.
C15_EventuallyReturns ==
    \A r \in Requests :
        (pc[r] = "idle") ~>
            (/\ Done(r)
             /\ result[r].kind \in {"Success", "Failure"}
             /\ Len(calls[r]) <= Len(MODEL_CANDIDATES))

\* C16: with a non-empty candidate list, whatever the attempts ended in, a
\* Failure carries the kind recorded for the last candidate called: the
\* table's kind when that attempt was transient, failed otherwise. Kinds of
\* earlier candidates never surface, and failed is returned only when the last
\* candidate called was itself classified failed.
C16_FailureIsLastKind ==
    \A r \in Requests :
        (Done(r) /\ result[r].kind = "Failure" /\ Len(MODEL_CANDIDATES) > 0) =>
            /\ Attempts(r) > 0 /\ Len(calls[r]) = Attempts(r)
            /\ result[r].error_type = last_error[r]
            /\ result[r].error_type =
                 (IF Transient(LastOutcome(r)) THEN TableKind(LastOutcome(r)) ELSE "failed")
            /\ Transient(LastOutcome(r)) => Attempts(r) = Len(MODEL_CANDIDATES)

C16_Witness ==
    /\ Done("r1")
    /\ Len(MODEL_CANDIDATES) = 3
    /\ outcomes["r1"] = <<Timeout, Response(404, JNull)>>
    /\ result["r1"] = Failure("failed")

C16_WitnessTransient ==
    /\ Done("r1")
    /\ outcomes["r1"] = <<Timeout, Response(503, JNull), Response(429, JNull)>>
    /\ result["r1"] = Failure("rate_limited")

\* A terminal condition: a 200 with empty or absent content, or a status that
\* is not retried.
Terminal(o) == (Ok200(o) /\ MissingField(o.body)) \/ NonRetryableStatus(o)

\* C17: a finished invocation is a Success if and only if one of its posts got
\* a 200 with non-empty text; and once a post has ended in a terminal
\* condition the result is Failure(failed), the candidates after it, working
\* or not, never being called.
C17_SuccessIffTextReturned ==
    \A r \in Requests :
        Done(r) =>
            /\ (result[r].kind = "Success") <=>
                 (\E i \in DOMAIN outcomes[r] :
                     /\ Ok200(outcomes[r][i])
                     /\ NonEmptyText(DocumentedContent(outcomes[r][i].body)))
            /\ (Attempts(r) > 0 /\ Terminal(LastOutcome(r))) =>
                 (result[r] = Failure("failed") /\ Len(calls[r]) = Attempts(r))

\* The settings read at startup, in reading order, each with its default.
Reads ==
    << <<"OPENROUTER_API_KEY", Unset>>,
       <<"OPENROUTER_BASE_URL", Set(DefaultBaseUrl)>>,
       <<"MODEL_CANDIDATES", Unset>>,
       <<"REQUEST_TIMEOUT_SEC", Set(DefaultTimeout)>>,
       <<"MAX_OUTPUT_TOKENS", Set(DefaultMaxTokens)>> >>

\* A text with nothing in it but blanks.
Blank(v) == \A i \in DOMAIN v : v[i] = " "

\* The value of a read is absent with no default, or present but blank.
AbsentOrBlank(e, read) ==
    \/ ~e[read[1]].set /\ ~read[2].set
    \/ e[read[1]].set /\ Blank(e[read[1]].v)

\* The numeric settings that are present are numerals.
NumeralsOk(e) ==
    \A name \in {"REQUEST_TIMEOUT_SEC", "MAX_OUTPUT_TOKENS"} :
        e[name].set => \A i \in DOMAIN e[name].v : e[name].v[i] \in Digits \cup {" "}

\* The pieces of text v, each named by the position of the separator (or
\* start of text, 0) before it, that hold something besides blanks.
PieceStarts(v) ==
    LET seps == {0} \cup {i \in DOMAIN v : v[i] = ","} IN
    {p \in seps : \E i \in (p + 1)..Len(v) :
                      /\ v[i] # " " /\ v[i] # ","
                      /\ \A h \in (p + 1)..i : v[h] # ","}

\* The piece of v starting after position p, without its surrounding blanks.
TrimmedPiece(v, p) ==
    LET ends == {i \in (p + 1)..(Len(v) + 1) : i = Len(v) + 1 \/ v[i] = ","}
        q == CHOOSE i \in ends : \A j \in ends : i <= j
        inked == {i \in (p + 1)..(q - 1) : v[i] # " "}
        first == CHOOSE i \in inked : \A j \in inked : i <= j
        last == CHOOSE i \in inked : \A j \in inked : i >= j
    IN  SubSeq(v, first, last)

\* list holds exactly the non-blank pieces of v, trimmed, in their order in v.
IsCandidateListOf(list, v) ==
    LET starts == PieceStarts(v) IN
    /\ Len(list) = Cardinality(starts)
    /\ \A k \in DOMAIN list :
           LET p == CHOOSE x \in starts : Cardinality({y \in starts : y < x}) = k - 1
           IN  list[k] = TrimmedPiece(v, p)

\* C18: once the import has run, (a) a read whose value is absent with no
\* default, or present but blank even where a default exists, has ended the
\* process with an error, and a process with no such read and well-formed
\* numerals is serving; (b) a serving process's candidate list holds exactly
\* the non-blank comma-separated pieces of the configured value, trimmed and
\* in their original order, every identifier non-empty; (c) a value of only
\* separators and blanks that is not all blank passes startup and gives the
\* empty list.
C18_StartupConfiguration ==
    LET e == boot.env IN
    boot.state \in {"serving", "crashed"} =>
        /\ (\E k \in DOMAIN Reads : AbsentOrBlank(e, Reads[k])) =>
              /\ boot.state = "crashed"
              /\ boot.error \in {"RuntimeError", "ValueError"}
              /\ boot.error = "ValueError" =>
                    /\ \A k \in 1..4 : ~AbsentOrBlank(e, Reads[k])
                    /\ ~NumeralsOk(e)
        /\ (\A k \in DOMAIN Reads : ~AbsentOrBlank(e, Reads[k])) =>
              /\ NumeralsOk(e) <=> boot.state = "serving"
              /\ ~NumeralsOk(e) => boot.error = "ValueError"
        /\ boot.state = "serving" =>
              /\ IsCandidateListOf(MODEL_CANDIDATES, e.MODEL_CANDIDATES.v)
              /\ \A k \in DOMAIN MODEL_CANDIDATES :
                    /\ MODEL_CANDIDATES[k] # <<>>
                    /\ Head(MODEL_CANDIDATES[k]) # " "
                    /\ MODEL_CANDIDATES[k][Len(MODEL_CANDIDATES[k])] # " "
                    /\ \A i \in DOMAIN MODEL_CANDIDATES[k] : MODEL_CANDIDATES[k][i] # ","
              /\ (\A i \in DOMAIN e.MODEL_CANDIDATES.v :
                      e.MODEL_CANDIDATES.v[i] \in {",", " "}) => MODEL_CANDIDATES = <<>>

\* The value "," passed startup, left no candidate, and the request was
\* answered without a post.
C18_Witness ==
    /\ boot.state = "serving"
    /\ boot.env.MODEL_CANDIDATES = Set(<<",">>)
    /\ MODEL_CANDIDATES = <<>>
    /\ Done("r1")
    /\ calls["r1"] = <<>>
    /\ result["r1"] = Failure("failed")

\* A blank value ended the process although the setting has a default.
C18_WitnessBlankWithDefault ==
    /\ boot.state = "crashed"
    /\ boot.error = "RuntimeError"
    /\ boot.env.OPENROUTER_API_KEY = Set(<<"k">>)
    /\ boot.env.OPENROUTER_BASE_URL = Set(<<" ">>)

\* Blanks around and between separators were dropped, order kept.
C18_WitnessTrimmed ==
    /\ boot.state = "serving"
    /\ boot.env.MODEL_CANDIDATES = Set(<<" ", "a", ",", ",">>)
    /\ MODEL_CANDIDATES = << <<"a">> >>

====
